---------------------------- MODULE Spec2Model ----------------------------
(***************************************************************************)
(* A model of auto-coder: the five-phase generation pipeline of            *)
(* ai_coding_system.py with its FILE: section parser, the command-line     *)
(* front end (cli/cli.py), the Streamlit front end (web/app.py) and the    *)
(* static-analysis wrappers of utils/code_quality.py.                      *)
(*                                                                         *)
(* Text is a sequence of tokens.  A token stands for a run of characters   *)
(* that the code never looks inside: the marker "FILE: ", a language tag,  *)
(* a file-name component, a word of prose.  The backtick, the newline, the *)
(* blank and the slash are tokens of their own, so that a fence is three   *)
(* consecutive backticks, exactly as str.find sees it.  String indices     *)
(* are 0-based as in Python and -1 is "not found".                         *)
(***************************************************************************)
EXTENDS Integers, Sequences, FiniteSets, TLC

(***************************************************************************)
(* Python str operations on token sequences                                *)
(***************************************************************************)

\* the separator of the FILE sections (ai_coding_system.py:209)
FILE_MARKER == <<"FILE: ">>

\* one backtick character
BACKTICK == "<bt>"

\* the code block marker searched by find / rfind (ai_coding_system.py:218)
FENCE == <<BACKTICK, BACKTICK, BACKTICK>>

\* characters removed by str.strip()
Whitespace == {" ", "\n"}

\* s[a:b] for 0 <= a, 0 <= b
Slice(s, a, b) == SubSeq(s, a + 1, IF b > Len(s) THEN Len(s) ELSE b)

\* sub occurs in s at 0-based offset i
MatchesAt(s, i, sub) ==
    /\ i >= 0
    /\ i + Len(sub) <= Len(s)
    /\ \A k \in 1..Len(sub) : s[i + k] = sub[k]

\* str.find: the lowest offset of sub in s, or -1
find(s, sub) ==
    LET hits == {i \in 0..(Len(s) - Len(sub)) : MatchesAt(s, i, sub)}
    IN  IF hits = {} THEN -1
        ELSE CHOOSE i \in hits : \A j \in hits : i <= j

\* str.rfind: the highest offset of sub in s, or -1
rfind(s, sub) ==
    LET hits == {i \in 0..(Len(s) - Len(sub)) : MatchesAt(s, i, sub)}
    IN  IF hits = {} THEN -1
        ELSE CHOOSE i \in hits : \A j \in hits : i >= j

\* str.replace: every non-overlapping occurrence of old, scanning from the left
RECURSIVE replace(_, _, _)
replace(s, old, new) ==
    IF Len(s) < Len(old) THEN s
    ELSE IF MatchesAt(s, 0, old)
         THEN new \o replace(SubSeq(s, Len(old) + 1, Len(s)), old, new)
         ELSE <<s[1]>> \o replace(Tail(s), old, new)

RECURSIVE lstrip(_)
lstrip(s) ==
    IF s # <<>> /\ s[1] \in Whitespace THEN lstrip(Tail(s)) ELSE s

RECURSIVE rstrip(_)
rstrip(s) ==
    IF s # <<>> /\ s[Len(s)] \in Whitespace
    THEN rstrip(SubSeq(s, 1, Len(s) - 1)) ELSE s

\* str.strip()
strip(s) == rstrip(lstrip(s))

\* str.split(sep): the pieces between the occurrences of sep, always at least one
RECURSIVE split(_, _)
split(s, sep) ==
    LET i == find(s, sep)
    IN  IF i = -1 THEN <<s>>
        ELSE <<Slice(s, 0, i)>> \o split(SubSeq(s, i + Len(sep) + 1, Len(s)), sep)

\* the non-ASCII characters a reply may hold: an em dash, an ellipsis and an
\* accented letter (one that the replacement table does not list)
EM_DASH == "<u2014>"
ELLIPSIS == "<u2026>"
E_ACUTE == "<u00e9>"

\* sanitize_text on one character: the replacement table, then
\* encode(ascii, replace)
sanitize_char(c) ==
    CASE c = EM_DASH  -> <<"-">>
      [] c = ELLIPSIS -> <<".", ".", ".">>
      [] c = E_ACUTE  -> <<"?">>
      [] OTHER        -> <<c>>

RECURSIVE sanitize_text(_)
sanitize_text(text) ==
    IF text = <<>> THEN <<>>
    ELSE sanitize_char(text[1]) \o sanitize_text(Tail(text))


(***************************************************************************)
(* Paths and the file system.  A path is text whose "/" tokens separate    *)
(* the components; the file system is keyed by the resolved path: the      *)
(* sequence of components, from the root, left once ".", ".." and empty    *)
(* components are taken out, as the operating system resolves a path       *)
(* (there are no symbolic links).  A relative path is taken from the       *)
(* working directory.                                                      *)
(***************************************************************************)

SEP == <<"/">>

\* os.getcwd()
getcwd == <<"/", "work">>

\* os.path.join(a, p) of posixpath: an absolute p discards a
join(a, p) ==
    IF p # <<>> /\ p[1] = "/" THEN p
    ELSE IF a = <<>> \/ a[Len(a)] = "/" THEN a \o p
    ELSE a \o SEP \o p

RECURSIVE rstrip_sep(_)
rstrip_sep(s) ==
    IF s # <<>> /\ s[Len(s)] = "/" THEN rstrip_sep(SubSeq(s, 1, Len(s) - 1)) ELSE s

\* os.path.dirname(p) of posixpath
dirname(p) ==
    LET i == rfind(p, SEP) + 1
        head == Slice(p, 0, i)
    IN  IF head # <<>> /\ \E k \in 1..Len(head) : head[k] # "/"
        THEN rstrip_sep(head) ELSE head

\* one component pushed on the stack of resolved components; ".." at the
\* root stays at the root
PushComponent(stack, comp) ==
    IF comp = <<>> \/ comp = <<".">> THEN stack
    ELSE IF comp = <<"..">>
         THEN SubSeq(stack, 1, Len(stack) - 1)
         ELSE Append(stack, comp)

RECURSIVE PushAll(_, _)
PushAll(stack, comps) ==
    IF comps = <<>> THEN stack
    ELSE PushAll(PushComponent(stack, comps[1]), Tail(comps))

\* the location a path names: its components from the root
Resolve(p) ==
    PushAll(<<>>, split(IF p # <<>> /\ p[1] = "/" THEN p ELSE getcwd \o SEP \o p, SEP))

Prefixes(r) == {SubSeq(r, 1, k) : k \in 0..Len(r)}

\* the file system with nothing in it but the root and the working directory
EmptyFS == [dirs |-> Prefixes(Resolve(getcwd)), files |-> [x \in {} |-> <<>>]]

IsDir(fs, r) == r \in fs.dirs

IsFile(fs, r) == r \in DOMAIN fs.files

\* os.makedirs(d, exist_ok=True): every missing ancestor and d itself are
\* created; an empty name, or a regular file in the way, raises OSError
makedirs(fs, d) ==
    LET r == Resolve(d)
    IN  IF d = <<>> \/ \E q \in Prefixes(r) : IsFile(fs, q)
        THEN [ok |-> FALSE, fs |-> fs]
        ELSE [ok |-> TRUE,
              fs |-> [fs EXCEPT !.dirs = @ \cup Prefixes(r)]]

\* open(file_path, "w") and f.write(content): the file is created or
\* truncated; a directory at that name, a name ending in "/", or a missing
\* parent directory raises OSError
write_file(fs, file_path, content) ==
    LET r == Resolve(file_path)
        parent == IF r = <<>> THEN <<>> ELSE SubSeq(r, 1, Len(r) - 1)
    IN  IF \/ file_path = <<>>
           \/ file_path[Len(file_path)] = "/"
           \/ IsDir(fs, r)
           \/ ~IsDir(fs, parent)
        THEN [ok |-> FALSE, fs |-> fs]
        ELSE [ok |-> TRUE,
              fs |-> [fs EXCEPT !.files = (r :> content) @@ @]]

\* safe_write_file: the content is ASCII after sanitize_text, so the UTF-8
\* write never meets UnicodeEncodeError; any other failure is raised again
\* as Exception
safe_write_file(fs, file_path, content) == write_file(fs, file_path, content)

(***************************************************************************)
(* The FILE: section parser shared by generate_code_files, generate_tests  *)
(* and generate_documentation.  The three loops are the same text but for  *)
(* the language tag whose fence they remove first ("python", "python",     *)
(* "markdown").                                                            *)
(***************************************************************************)

\* lines = section.strip().split("\n"); file_path = lines[0].strip()
section_file_path(section) == strip(split(strip(section), <<"\n">>)[1])

\* the test with "code_start != -1" alone
has_code_block_one_fence(section) == find(section, FENCE) # -1

\* code_start != -1 and code_end != -1 and code_end > code_start
has_code_block(section) ==
    LET code_start == find(section, FENCE)
        code_end == rfind(section, FENCE)
    IN  code_start # -1 /\ code_end # -1 /\ code_end > code_start

\* section[code_start:code_end].strip(), then the two replace calls and strip
extract_code_content(section, tag) ==
    LET code_start == find(section, FENCE)
        code_end == rfind(section, FENCE)
        code_content == strip(Slice(section, code_start, code_end))
    IN  strip(replace(replace(code_content, FENCE \o <<tag>>, <<>>), FENCE, <<>>))

\* the loop body with a section that holds no block ending the phase with
\* an error instead of being skipped
save_section_or_fail(st, section, tag, output_dir) ==
    LET file_path == section_file_path(section)
        full_path == join(output_dir, file_path)
        made == makedirs(st.fs, dirname(full_path))
        wrote == safe_write_file(made.fs, full_path, extract_code_content(section, tag))
    IN  IF ~st.ok THEN st
        ELSE IF ~has_code_block(section) THEN [st EXCEPT !.ok = FALSE]
        ELSE IF ~made.ok THEN [st EXCEPT !.ok = FALSE]
        ELSE IF ~wrote.ok THEN [st EXCEPT !.ok = FALSE, !.fs = made.fs]
        ELSE [ok |-> TRUE,
              fs |-> wrote.fs,
              created |-> Append(st.created, file_path),
              writes |-> Append(st.writes,
                                [path |-> full_path,
                                 content |-> extract_code_content(section, tag)])]

\* The body of the loop for one section.  st is the state of the call:
\* the file system, the list built so far, the writes made (path as given to
\* safe_write_file, and content) and whether an exception is propagating.
save_section(st, section, tag, output_dir) ==
    LET file_path == section_file_path(section)
        full_path == join(output_dir, file_path)
        made == makedirs(st.fs, dirname(full_path))
        wrote == safe_write_file(made.fs, full_path, extract_code_content(section, tag))
    IN  IF ~st.ok \/ ~has_code_block(section) THEN st
        ELSE IF ~made.ok THEN [st EXCEPT !.ok = FALSE]
        ELSE IF ~wrote.ok THEN [st EXCEPT !.ok = FALSE, !.fs = made.fs]
        ELSE [ok |-> TRUE,
              fs |-> wrote.fs,
              created |-> Append(st.created, file_path),
              writes |-> Append(st.writes,
                                [path |-> full_path,
                                 content |-> extract_code_content(section, tag)])]

RECURSIVE save_sections(_, _, _, _)
save_sections(st, sections, tag, output_dir) ==
    IF sections = <<>> THEN st
    ELSE save_sections(save_section(st, sections[1], tag, output_dir),
                       Tail(sections), tag, output_dir)

\* content = sanitize_text(response.content); file_sections =
\* content.split("FILE: "); the loop over file_sections[1:]
parse_and_save(response, tag, output_dir, fs) ==
    LET content == sanitize_text(response)
        file_sections == split(content, FILE_MARKER)
    IN  save_sections([ok |-> TRUE, fs |-> fs, created |-> <<>>, writes |-> <<>>],
                      Tail(file_sections), tag, output_dir)

\* the part of generate_code_files after llm.invoke
generate_code_files(response, output_dir, fs) ==
    parse_and_save(response, "python", output_dir, fs)

\* the part of generate_tests after llm.invoke; the loop that reads the
\* created files back catches every exception and changes nothing
generate_tests(response, output_dir, fs) ==
    parse_and_save(response, "python", output_dir, fs)

\* the part of generate_documentation after llm.invoke
generate_documentation(response, output_dir, fs) ==
    parse_and_save(response, "markdown", output_dir, fs)

\* generate_requirements_document / generate_architecture_design after
\* llm.invoke: the sanitized reply is written to docs/<name>
save_document(response, name, output_dir, fs) ==
    LET content == sanitize_text(response)
        docs_dir == join(output_dir, <<"docs">>)
        made == makedirs(fs, docs_dir)
        wrote == safe_write_file(made.fs, join(docs_dir, <<name>>), content)
    IN  IF ~made.ok THEN [ok |-> FALSE, fs |-> fs, content |-> content]
        ELSE IF ~wrote.ok THEN [ok |-> FALSE, fs |-> made.fs, content |-> content]
        ELSE [ok |-> TRUE, fs |-> wrote.fs, content |-> content]

\* create_project_structure: output_dir, then src, tests and docs under it
RECURSIVE make_all(_, _)
make_all(r, ds) ==
    IF ds = <<>> \/ ~r.ok THEN r
    ELSE make_all(makedirs(r.fs, ds[1]), Tail(ds))

create_project_structure(output_dir, fs) ==
    make_all([ok |-> TRUE, fs |-> fs],
             <<output_dir,
               join(output_dir, <<"src">>),
               join(output_dir, <<"tests">>),
               join(output_dir, <<"docs">>)>>)

(***************************************************************************)
(* The replies the language model may give.  A reply is an optional        *)
(* preamble followed by FILE sections; each section is drawn from the      *)
(* shapes below, which cover the layouts the parser tells apart.           *)
(***************************************************************************)

NL == "\n"

\* the sections of a reply, each the text that follows one "FILE: " marker
SectionShapes == <<
    \* 1: the layout the prompts ask for
    <<"src", "/", "main.py", NL>> \o FENCE \o <<"python", NL, "code", NL>> \o FENCE \o <<NL, NL>>,
    \* 2: another language tag, and prose after the closing fence
    <<"app.js", NL>> \o FENCE \o <<"js", NL, "code", NL>> \o FENCE \o <<NL, "prose", NL>>,
    \* 3: a markdown file that holds a fenced block of its own
    <<"README.md", NL>> \o FENCE \o <<"markdown", NL, "title", NL>> \o FENCE
        \o <<"bash", NL, "run", NL>> \o FENCE \o <<NL, "more", NL>> \o FENCE \o <<NL>>,
    \* 4: no fence at all
    <<"notes.txt", NL, "prose", NL>>,
    \* 5: a fence that is never closed
    <<"broken.py", NL>> \o FENCE \o <<"python", NL, "code", NL>>,
    \* 6: a single run of four backticks
    <<"quad.py", NL>> \o FENCE \o <<BACKTICK, "code", NL>>,
    \* 7: the path names a directory that create_project_structure made
    <<"src", NL>> \o FENCE \o <<"python", NL, "code", NL>> \o FENCE \o <<NL>>,
    \* 8: blank text before the path, a non-ASCII character in the body
    <<" ", NL, "docs", "/", "guide.md", " ", NL>> \o FENCE
        \o <<"markdown", NL, "a", EM_DASH, "b", NL>> \o FENCE \o <<NL>>,
    \* 9: a path that climbs out of the output directory
    <<"..", "/", "escape.py", NL>> \o FENCE \o <<"python", NL, "code", NL>> \o FENCE \o <<NL>>,
    \* 10: an absolute path
    <<"/", "abs", "/", "x.py", NL>> \o FENCE \o <<"python", NL, "code", NL>> \o FENCE \o <<NL>>,
    \* 11: the opening fence on the path line
    <<"same.py", " ">> \o FENCE \o <<"python", " ", "code", " ">> \o FENCE,
    \* 12: an empty block, and no tag
    <<"empty.py", NL>> \o FENCE \o FENCE \o <<NL>>,
    \* 13: a file below the directory that shape 2 makes a regular file
    <<"app.js", "/", "sub.py", NL>> \o FENCE \o <<NL, "code", NL>> \o FENCE \o <<NL>>
>>

\* the text a reply may hold before its first marker
Preambles == {<<>>, <<"intro", NL>>}

\* the most sections a reply holds
MaxSections == 2

RECURSIVE SectionSeqs(_, _)
SectionSeqs(shapes, n) ==
    IF n = 0 THEN {<<>>}
    ELSE LET shorter == SectionSeqs(shapes, n - 1)
         IN  shorter \cup {Append(q, i) : q \in shorter, i \in shapes}

RECURSIVE ReplyText(_)
ReplyText(q) ==
    IF q = <<>> THEN <<>>
    ELSE FILE_MARKER \o SectionShapes[q[1]] \o ReplyText(Tail(q))

\* every reply of at most n sections drawn from the shapes numbered in shapes
RepliesOf(shapes, n) ==
    {pre \o ReplyText(q) : pre \in Preambles, q \in SectionSeqs(shapes, n)}

(***************************************************************************)
(* State                                                                   *)
(***************************************************************************)

VARIABLES
    \* the environment
    apiKey,         \* os.getenv("GROQ_API_KEY"): NONE when unset
    fs,             \* the file system
    \* run_simplified_coding_system
    pc,             \* the statement the call is at
    exc,            \* the exception propagating out of the try block
    result,         \* the value returned, once pc = "returned"
    runArgs,        \* the arguments of the call: prompt and output_dir
    locals,         \* requirements, architecture, created_files, created_tests, created_docs
    invocations,    \* the phases that called llm.invoke, in order
    writes,         \* every write safe_write_file completed, in order
    fsAtCall,       \* the file system when the call was made
    \* the process that makes the call
    entry,          \* which program was started
    argv,           \* its command line
    mainPc,         \* the statement its main is at
    prompt,         \* the prompt main has collected
    mainExc,        \* the exception that left main
    mainReturn,     \* the value main returned, -1 before it returns
    exitCode,       \* the exit status of the process, -1 while it runs
    \* web/app.py
    webPc,          \* how far the app script has run
    session,        \* st.session_state
    threadPc,       \* the statement create_project_in_thread is at
    monitorPc,      \* the statement progress_monitor is at
    \* the utils package
    installed,      \* the tools installed in the environment
    utilsPc,        \* whether the package has been imported
    call,           \* the last call of a wrapper: its name, argument and result
    \* one call of a file phase on one reply
    parseIn,        \* the phase, the reply and the output directory
    parseOut        \* the state of the call when it ends

runVars == <<pc, exc, result, runArgs, locals, invocations, writes, fsAtCall>>
mainVars == <<entry, argv, mainPc, prompt, mainExc, mainReturn, exitCode>>
webVars == <<webPc, session, threadPc, monitorPc>>
utilVars == <<installed, utilsPc, call>>
parseVars == <<parseIn, parseOut>>
restVars == <<utilVars, parseVars>>
vars == <<apiKey, fs, runVars, mainVars, webVars, utilVars, parseVars>>

\* None where a text is expected
NONE == <<"<None>">>

\* no exception
NoExc == "none"

\* the phases of run_simplified_coding_system, in the order of its text
Phases == <<"requirements", "architecture", "code", "tests", "docs">>

\* the exception classes of the model that derive from Exception;
\* KeyboardInterrupt and SystemExit derive from BaseException only
ExceptionClasses == {"ValueError", "OSError", "Exception", "APIError", "IndexError"}

\* None where a list of texts is expected
NoList == <<NONE>>

NoLocals ==
    [requirements |-> NONE, architecture |-> NONE, created_files |-> NoList,
     created_tests |-> NoList, created_docs |-> NoList]

\* the replies to the two prose phases
ProseReplies == {<<"text">>, <<"a", ELLIPSIS, "b", E_ACUTE>>}

\* the replies to the three file phases of a run: no section, one file,
\* a file with another tag, and a file followed by a section whose path
\* names a directory
FileReplies ==
    {ReplyText(q) : q \in {<<>>, <<1>>, <<2>>, <<1, 7>>}}

(***************************************************************************)
(* run_simplified_coding_system                                            *)
(***************************************************************************)

\* create_coding_agent with "if api_key is None" for "if not api_key"
create_coding_agent_is_none(key) ==
    IF key = NONE THEN "ValueError" ELSE "ok"

\* create_coding_agent: "ok", or the exception it raises
create_coding_agent(key) ==
    IF key = NONE \/ key = <<>> THEN "ValueError" ELSE "ok"

\* the try block with the documentation phase written before the tests phase
phase_after_docs_first(p) ==
    CASE p = "requirements" -> "architecture"
      [] p = "architecture" -> "code"
      [] p = "code"         -> "docs"
      [] p = "docs"         -> "tests"
      [] p = "tests"        -> "return"

\* the statement that follows a phase in the try block
phase_after(p) ==
    CASE p = "requirements" -> "architecture"
      [] p = "architecture" -> "code"
      [] p = "code"         -> "tests"
      [] p = "tests"        -> "docs"
      [] p = "docs"         -> "return"

\* except ValueError as e
catches_value_error(e) == e = "ValueError"

\* except Exception as e
catches(e) == e \in ExceptionClasses

Running == {"create_agent", "create_structure"} \cup {Phases[i] : i \in 1..Len(Phases)}

\* the call run_simplified_coding_system(p, output_dir)
CallRun(p, output_dir, fsNow) ==
    /\ pc' = "create_agent"
    /\ runArgs' = [prompt |-> p, output_dir |-> output_dir]
    /\ fsAtCall' = fsNow
    /\ UNCHANGED <<exc, result, locals, invocations, writes>>

Raise(e) == pc' = "except" /\ exc' = e

\* the end of a phase: the next one, or the return True after the last
Proceed(p) ==
    /\ UNCHANGED exc
    /\ IF phase_after(p) = "return"
       THEN pc' = "returned" /\ result' = TRUE
       ELSE pc' = phase_after(p) /\ UNCHANGED result

\* llm = create_coding_agent()
CreateAgent ==
    /\ pc = "create_agent"
    /\ IF create_coding_agent(apiKey) = "ok"
       THEN pc' = "create_structure" /\ UNCHANGED exc
       ELSE Raise(create_coding_agent(apiKey))
    /\ UNCHANGED <<apiKey, fs, result, runArgs, locals, invocations, writes, fsAtCall, mainVars, webVars, restVars>>

\* create_project_structure(output_dir)
CreateStructure ==
    /\ pc = "create_structure"
    /\ LET made == create_project_structure(runArgs.output_dir, fs)
       IN  /\ fs' = made.fs
           /\ IF made.ok THEN pc' = "requirements" /\ UNCHANGED exc
              ELSE Raise("OSError")
    /\ UNCHANGED <<apiKey, result, runArgs, locals, invocations, writes, fsAtCall, mainVars, webVars, restVars>>

\* one of the two prose phases: llm.invoke, then the document is saved
ProsePhase(p, name, field) ==
    /\ pc = p
    /\ invocations' = Append(invocations, p)
    /\ \/ /\ Raise("APIError")
          /\ UNCHANGED <<fs, writes, locals, result>>
       \/ \E reply \in ProseReplies :
            LET saved == save_document(reply, name, runArgs.output_dir, fs)
            IN  /\ fs' = saved.fs
                /\ IF saved.ok
                   THEN /\ writes' = Append(writes,
                               [path |-> join(join(runArgs.output_dir, <<"docs">>), <<name>>),
                                content |-> saved.content])
                        /\ locals' = [locals EXCEPT ![field] = saved.content]
                        /\ Proceed(p)
                   ELSE /\ Raise("Exception")
                        /\ UNCHANGED <<writes, locals, result>>
    /\ UNCHANGED <<apiKey, runArgs, fsAtCall, mainVars, webVars, restVars>>

\* requirements = generate_requirements_document(llm, prompt, output_dir)
GenerateRequirements == ProsePhase("requirements", "requirements.md", "requirements")

\* architecture = generate_architecture_design(llm, requirements, output_dir)
GenerateArchitecture == ProsePhase("architecture", "architecture.md", "architecture")

\* the file phases
FilePhases == {"code", "tests", "docs"}

\* what the function of a file phase does with the reply, after llm.invoke
generate(kind, reply, output_dir, f) ==
    CASE kind = "code"  -> generate_code_files(reply, output_dir, f)
      [] kind = "tests" -> generate_tests(reply, output_dir, f)
      [] kind = "docs"  -> generate_documentation(reply, output_dir, f)

\* one of the three file phases: llm.invoke, then the reply is parsed and
\* its files are saved
FilePhase(p, field) ==
    /\ pc = p
    /\ invocations' = Append(invocations, p)
    /\ \/ /\ Raise("APIError")
          /\ UNCHANGED <<fs, writes, locals, result>>
       \/ \E reply \in FileReplies :
            LET r == generate(p, reply, runArgs.output_dir, fs)
            IN  /\ fs' = r.fs
                /\ writes' = writes \o r.writes
                /\ IF r.ok
                   THEN /\ locals' = [locals EXCEPT ![field] = r.created]
                        /\ Proceed(p)
                   ELSE /\ Raise("Exception")
                        /\ UNCHANGED <<locals, result>>
    /\ UNCHANGED <<apiKey, runArgs, fsAtCall, mainVars, webVars, restVars>>

\* created_files = generate_code_files(llm, requirements, architecture, output_dir)
GenerateCodeFiles == FilePhase("code", "created_files")

\* created_tests = generate_tests(llm, requirements, created_files, output_dir)
GenerateTests == FilePhase("tests", "created_tests")

\* created_docs = generate_documentation(llm, requirements, architecture, created_files, output_dir)
GenerateDocumentation == FilePhase("docs", "created_docs")

\* an except clause that puts the disk back as it was at the call
Except_with_rollback ==
    /\ pc = "except"
    /\ fs' = fsAtCall
    /\ IF catches(exc)
       THEN pc' = "returned" /\ result' = FALSE
       ELSE pc' = "propagated" /\ UNCHANGED result
    /\ UNCHANGED <<apiKey, exc, runArgs, locals, invocations, writes, fsAtCall, mainVars, webVars, restVars>>

\* the except clause of run_simplified_coding_system: an Exception makes the
\* call return False, anything else leaves the call
Except ==
    /\ pc = "except"
    /\ IF catches(exc)
       THEN pc' = "returned" /\ result' = FALSE
       ELSE pc' = "propagated" /\ UNCHANGED result
    /\ UNCHANGED <<apiKey, fs, exc, runArgs, locals, invocations, writes, fsAtCall, mainVars, webVars, restVars>>

\* Ctrl-C while the call is in its try block
Interrupt ==
    /\ pc \in Running
    /\ entry \in {"cli", "script"}
    /\ Raise("KeyboardInterrupt")
    /\ UNCHANGED <<apiKey, fs, result, runArgs, locals, invocations, writes, fsAtCall, mainVars, webVars, restVars>>

(***************************************************************************)
(* cli/cli.py                                                              *)
(***************************************************************************)

\* parse_args: the prompt is optional, -o defaults to
\* os.path.join(os.getcwd(), "generated_project"), -i is a flag
parse_args(av) ==
    [prompt |-> av.prompt,
     output_dir |-> IF av.o = NONE THEN join(getcwd, <<"generated_project">>) ELSE av.o,
     interactive |-> av.i]

\* if args.interactive or args.prompt is None
uses_questionnaire_is_none(args) ==
    args.interactive \/ args.prompt = NONE

\* if args.interactive or not args.prompt
uses_questionnaire(args) ==
    args.interactive \/ args.prompt = NONE \/ args.prompt = <<>>

\* the prompt interactive_requirements_gathering builds from the answers
QuestionnairePrompt == <<"Project:", "answers">>

\* how interactive_requirements_gathering ends: it returns the prompt; the
\* user declines and it calls sys.exit(0); int() of an answer that is no
\* number, or a choice out of range, raises; the user presses Ctrl-C
GatherOutcomes == {"return", "SystemExit", "ValueError", "IndexError", "KeyboardInterrupt"}

\* the handlers under __main__ with the two except clauses in the other
\* order exit alike; with KeyboardInterrupt reported as a failure they do not
cli_exit_code_interrupt_fails(ret, e) ==
    CASE e = NoExc               -> ret
      [] e = "KeyboardInterrupt" -> 1
      [] e = "SystemExit"        -> 0
      [] e \in ExceptionClasses  -> 1

\* the handlers around main() under __main__: sys.exit(exit_code), except
\* KeyboardInterrupt: sys.exit(0), except Exception: sys.exit(1); the
\* SystemExit of sys.exit(0) inside the questionnaire passes through both
cli_exit_code(ret, e) ==
    CASE e = NoExc               -> ret
      [] e = "KeyboardInterrupt" -> 0
      [] e = "SystemExit"        -> 0
      [] e \in ExceptionClasses  -> 1

\* main, up to the choice between the questionnaire and the argument
CliStart ==
    /\ entry = "cli" /\ mainPc = "start"
    /\ IF uses_questionnaire(parse_args(argv))
       THEN mainPc' = "gather" /\ UNCHANGED prompt
       ELSE mainPc' = "makedirs" /\ prompt' = parse_args(argv).prompt
    /\ UNCHANGED <<apiKey, fs, runVars, entry, argv, mainExc, mainReturn, exitCode, webVars, restVars>>

\* prompt = interactive_requirements_gathering()
CliGather ==
    /\ entry = "cli" /\ mainPc = "gather"
    /\ \E o \in GatherOutcomes :
         IF o = "return"
         THEN mainPc' = "makedirs" /\ prompt' = QuestionnairePrompt /\ UNCHANGED mainExc
         ELSE mainPc' = "left" /\ mainExc' = o /\ UNCHANGED prompt
    /\ UNCHANGED <<apiKey, fs, runVars, entry, argv, mainReturn, exitCode, webVars, restVars>>

\* os.makedirs(output_dir, exist_ok=True), then
\* success = run_simplified_coding_system(prompt, output_dir)
CliRun ==
    /\ entry = "cli" /\ mainPc = "makedirs"
    /\ LET made == makedirs(fs, parse_args(argv).output_dir)
       IN  /\ fs' = made.fs
           /\ IF made.ok
              THEN /\ mainPc' = "run"
                   /\ CallRun(prompt, parse_args(argv).output_dir, made.fs)
                   /\ UNCHANGED mainExc
              ELSE /\ mainPc' = "left"
                   /\ mainExc' = "OSError"
                   /\ UNCHANGED runVars
    /\ UNCHANGED <<apiKey, entry, argv, prompt, mainReturn, exitCode, webVars, restVars>>

\* the rest of main once the call is over: return 0 if success else 1; an
\* exception the call let through leaves main as well
CliReport ==
    /\ entry = "cli" /\ mainPc = "run"
    /\ \/ /\ pc = "returned"
          /\ mainReturn' = (IF result THEN 0 ELSE 1)
          /\ UNCHANGED mainExc
       \/ /\ pc = "propagated"
          /\ mainExc' = exc
          /\ UNCHANGED mainReturn
    /\ mainPc' = "left"
    /\ UNCHANGED <<apiKey, fs, runVars, entry, argv, prompt, exitCode, webVars, restVars>>

\* the try statement under __main__
CliExit ==
    /\ entry = "cli" /\ mainPc = "left"
    /\ exitCode' = cli_exit_code(mainReturn, mainExc)
    /\ mainPc' = "exit"
    /\ UNCHANGED <<apiKey, fs, runVars, entry, argv, prompt, mainExc, mainReturn, webVars, restVars>>

(***************************************************************************)
(* ai_coding_system.py run as a script                                     *)
(***************************************************************************)

\* if len(sys.argv) < 3: usage and sys.exit(1); else the call
ScriptStart ==
    /\ entry = "script" /\ mainPc = "start"
    /\ IF argv.prompt = NONE \/ argv.o = NONE
       THEN /\ mainPc' = "exit" /\ exitCode' = 1
            /\ UNCHANGED <<runVars, prompt>>
       ELSE /\ mainPc' = "run" /\ prompt' = argv.prompt
            /\ CallRun(argv.prompt, argv.o, fs)
            /\ UNCHANGED exitCode
    /\ UNCHANGED <<apiKey, fs, entry, argv, mainExc, mainReturn, webVars, restVars>>

\* sys.exit(0 if success else 1); a KeyboardInterrupt nothing catches ends
\* the interpreter with the status of SIGINT
ScriptExit ==
    /\ entry = "script" /\ mainPc = "run"
    /\ \/ /\ pc = "returned"
          /\ exitCode' = (IF result THEN 0 ELSE 1)
          /\ UNCHANGED mainExc
       \/ /\ pc = "propagated"
          /\ exitCode' = 130
          /\ mainExc' = exc
    /\ mainPc' = "exit"
    /\ UNCHANGED <<apiKey, fs, runVars, entry, argv, prompt, mainReturn, webVars, restVars>>

(***************************************************************************)
(* web/app.py                                                              *)
(***************************************************************************)

\* the names ai_coding_system.py defines at module level
ModuleNames ==
    {"safe_write_file", "sanitize_text", "create_coding_agent",
     "create_project_structure", "generate_requirements_document",
     "generate_architecture_design", "generate_code_files", "generate_tests",
     "generate_documentation", "run_simplified_coding_system"}

\* from ai_coding_system import run_coding_system
ImportedName == "run_coding_system"

\* the import statement: the script goes on to the form, or stops with
\* ImportError
import_entry_point == IF ImportedName \in ModuleNames THEN "form" ELSE "ImportError"

\* the session state the script sets when a key is missing
InitialSession ==
    [progress |-> 0, current_phase |-> "", messages |-> <<>>, is_running |-> FALSE,
     output_dir |-> NONE, files |-> {}, download_ready |-> FALSE]

\* the phases list of progress_monitor
WebPhases ==
    <<"requirements_gathering", "architecture_design", "implementation",
      "testing", "documentation", "review_and_finalization">>

\* one poll of progress_monitor: int((phase_idx / len(phases)) * 100) when
\* current_phase is in the list, the progress left alone otherwise
monitor_progress(ss) ==
    IF \E i \in 1..Len(WebPhases) : WebPhases[i] = ss.current_phase
    THEN LET phase_idx == (CHOOSE i \in 1..Len(WebPhases) : WebPhases[i] = ss.current_phase) - 1
         IN  (phase_idx * 100) \div Len(WebPhases)
    ELSE ss.progress

\* the text of the Output Directory field, and the prompt of the form
WebOutputDir == join(getcwd, <<"generated_project">>)
WebPrompt == <<"Project:", "form">>

\* os.walk(output_dir): the files below output_dir, relative to it (in no
\* particular order)
walk_files(f, output_dir) ==
    LET root == Resolve(output_dir)
    IN  {SubSeq(r, Len(root) + 1, Len(r)) :
            r \in {q \in DOMAIN f.files : Len(q) > Len(root) /\ SubSeq(q, 1, Len(root)) = root}}

\* the script up to its import of the generation entry point
WebLoad ==
    /\ entry = "web" /\ webPc = "unloaded"
    /\ webPc' = import_entry_point
    /\ UNCHANGED <<apiKey, fs, runVars, mainVars, session, threadPc, monitorPc, restVars>>

\* the Generate Project button: os.makedirs(output_path, exist_ok=True) and
\* the thread is started
WebGenerate ==
    /\ entry = "web" /\ webPc = "form"
    /\ ~session.is_running /\ threadPc = "idle"
    /\ LET made == makedirs(fs, WebOutputDir)
       IN  /\ fs' = made.fs
           /\ IF made.ok THEN threadPc' = "started" /\ UNCHANGED webPc
              ELSE webPc' = "OSError" /\ UNCHANGED threadPc
    /\ UNCHANGED <<apiKey, runVars, mainVars, session, monitorPc, restVars>>

\* create_project_in_thread up to its call: the session is reset, the
\* monitor thread is started and the entry point is called
ThreadStart ==
    /\ threadPc = "started"
    /\ session' = [session EXCEPT !.progress = 0, !.current_phase = "starting",
                                  !.messages = <<>>, !.is_running = TRUE,
                                  !.download_ready = FALSE]
    /\ monitorPc' = "poll"
    /\ threadPc' = "run"
    /\ CallRun(WebPrompt, WebOutputDir, fs)
    /\ UNCHANGED <<apiKey, fs, mainVars, webPc, restVars>>

\* create_project_in_thread after the call has returned, whatever it
\* returned; the finally clause clears is_running
ThreadFinish ==
    /\ threadPc = "run" /\ pc = "returned"
    /\ session' = [session EXCEPT !.output_dir = WebOutputDir,
                                  !.files = walk_files(fs, WebOutputDir),
                                  !.progress = 100,
                                  !.current_phase = "complete",
                                  !.download_ready = TRUE,
                                  !.is_running = FALSE]
    /\ threadPc' = "done"
    /\ UNCHANGED <<apiKey, fs, runVars, mainVars, webPc, monitorPc, restVars>>

\* one turn of the loop of progress_monitor, up to its sleep
MonitorPoll ==
    /\ monitorPc = "poll"
    /\ IF session.is_running
       THEN /\ session' = [session EXCEPT !.progress = monitor_progress(session)]
            /\ monitorPc' = "sleep"
       ELSE /\ monitorPc' = "ended"
            /\ UNCHANGED session
    /\ UNCHANGED <<apiKey, fs, runVars, mainVars, webPc, threadPc, restVars>>

\* time.sleep(0.5) is over
MonitorWake ==
    /\ monitorPc = "sleep"
    /\ monitorPc' = "poll"
    /\ UNCHANGED <<apiKey, fs, runVars, mainVars, webPc, session, threadPc, restVars>>

(***************************************************************************)
(* utils/__init__.py and utils/code_quality.py                             *)
(***************************************************************************)

\* the packages and programs the utils package uses
Packages == {"yaml", "black", "pylint", "isort", "pycodestyle"}

\* import utils: file_utils imports yaml and code_quality imports black at
\* module level; the import of pylint is inside try / except ImportError
import_utils(inst) ==
    IF "yaml" \in inst /\ "black" \in inst THEN "imported" ELSE "ImportError"

\* PYLINT_AVAILABLE
PYLINT_AVAILABLE(inst) == "pylint" \in inst

\* the code handed to the wrappers: formatted already, valid but not
\* formatted, and not valid Python
Codes == {"tidy", "messy", "invalid"}

\* black.format_str: the formatted code, or "raise" on invalid input
black_format_str(code) ==
    CASE code = "tidy"    -> "tidy"
      [] code = "messy"   -> "tidy"
      [] code = "invalid" -> "raise"

\* format_python_code: the formatted code, the code as given if Black raises
format_python_code(code) ==
    IF black_format_str(code) = "raise" THEN code ELSE black_format_str(code)

\* run_pylint: (report, score); outcome is what Run does when it is called
run_pylint(inst, outcome) ==
    IF ~PYLINT_AVAILABLE(inst) THEN <<"Pylint not available", "0.0">>
    ELSE IF outcome = "raise" THEN <<"Error running Pylint", "0.0">>
    ELSE <<"report", outcome>>

\* subprocess.run([tool, ...]): FileNotFoundError when the program is not
\* installed, else its return code
subprocess_run(inst, tool, returncode) ==
    IF tool \in inst THEN returncode ELSE "FileNotFoundError"

\* optimize_imports: (success, text)
optimize_imports(inst, code, returncode) ==
    LET r == subprocess_run(inst, "isort", returncode)
    IN  CASE r = "FileNotFoundError" -> <<"False", "isort not installed or not in PATH">>
          [] r = "0"                 -> <<"True", code>>
          [] OTHER                   -> <<"False", "Error optimizing imports">>

\* check_pep8_compliance: (compliant, violations)
check_pep8_compliance(inst, returncode) ==
    LET r == subprocess_run(inst, "pycodestyle", returncode)
    IN  CASE r = "FileNotFoundError" -> <<"False", "pycodestyle not installed or not in PATH">>
          [] r = "0"                 -> <<"True", "">>
          [] OTHER                   -> <<"False", "violations">>

NoCall == [fn |-> "none", arg |-> "", result |-> <<"", "">>]

\* import utils
ImportUtils ==
    /\ utilsPc = "unloaded"
    /\ utilsPc' = import_utils(installed)
    /\ UNCHANGED <<apiKey, fs, runVars, mainVars, webVars, installed, call, parseVars>>

\* a call of format_python_code
FormatPythonCode ==
    /\ utilsPc = "imported"
    /\ \E code \in Codes :
         call' = [fn |-> "format_python_code", arg |-> code,
                  result |-> <<format_python_code(code), "">>]
    /\ UNCHANGED <<apiKey, fs, runVars, mainVars, webVars, installed, utilsPc, parseVars>>

\* a call of run_pylint
RunPylint ==
    /\ utilsPc = "imported"
    /\ \E outcome \in {"raise", "7.5", "10.0"} :
         call' = [fn |-> "run_pylint", arg |-> "file.py",
                  result |-> run_pylint(installed, outcome)]
    /\ UNCHANGED <<apiKey, fs, runVars, mainVars, webVars, installed, utilsPc, parseVars>>

\* a call of optimize_imports
OptimizeImports ==
    /\ utilsPc = "imported"
    /\ \E code \in Codes, returncode \in {"0", "1"} :
         call' = [fn |-> "optimize_imports", arg |-> code,
                  result |-> optimize_imports(installed, code, returncode)]
    /\ UNCHANGED <<apiKey, fs, runVars, mainVars, webVars, installed, utilsPc, parseVars>>

\* a call of check_pep8_compliance
CheckPep8Compliance ==
    /\ utilsPc = "imported"
    /\ \E returncode \in {"0", "1"} :
         call' = [fn |-> "check_pep8_compliance", arg |-> "file.py",
                  result |-> check_pep8_compliance(installed, returncode)]
    /\ UNCHANGED <<apiKey, fs, runVars, mainVars, webVars, installed, utilsPc, parseVars>>

(***************************************************************************)
(* One file phase on one reply                                             *)
(***************************************************************************)

NotParsed == [done |-> FALSE, ok |-> TRUE, created |-> <<>>, writes |-> <<>>]

\* the phase is run on the reply
ParseReply ==
    /\ parseIn.kind \in FilePhases
    /\ ~parseOut.done
    /\ LET r == generate(parseIn.kind, parseIn.reply, parseIn.output_dir, fs)
       IN  /\ fs' = r.fs
           /\ parseOut' = [done |-> TRUE, ok |-> r.ok, created |-> r.created,
                           writes |-> r.writes]
    /\ UNCHANGED <<apiKey, runVars, mainVars, webVars, utilVars, parseIn>>

(***************************************************************************)
(* The specification of a run from the command line                        *)
(***************************************************************************)

\* a prompt given on the command line
ArgPrompt == <<"todo", " ", "app">>

\* the command lines: the prompt absent, empty or given; -o absent or given;
\* -i absent or given
CliArgv ==
    [prompt : {NONE, <<>>, ArgPrompt}, o : {NONE, <<"out">>}, i : BOOLEAN]

ScriptArgv ==
    {[prompt |-> ArgPrompt, o |-> <<"out">>, i |-> FALSE],
     [prompt |-> ArgPrompt, o |-> NONE, i |-> FALSE]}

\* the file system before the program starts: empty, or with a regular file
\* where -o points
InitialFS ==
    {EmptyFS,
     [EmptyFS EXCEPT !.files = (Resolve(<<"out">>) :> <<"old">>) @@ @]}

InitRun ==
    /\ pc = "idle"
    /\ exc = NoExc
    /\ result = FALSE
    /\ runArgs = [prompt |-> NONE, output_dir |-> NONE]
    /\ locals = NoLocals
    /\ invocations = <<>>
    /\ writes = <<>>
    /\ fsAtCall = fs

\* no program with a main of its own is running
InitMain(e, avs) ==
    /\ entry = e
    /\ argv \in avs
    /\ mainPc = "start"
    /\ prompt = NONE
    /\ mainExc = NoExc
    /\ mainReturn = -1
    /\ exitCode = -1

NoArgv == {[prompt |-> NONE, o |-> NONE, i |-> FALSE]}

InitWebApp ==
    /\ webPc = "unloaded"
    /\ session = InitialSession
    /\ threadPc = "idle"
    /\ monitorPc = "idle"

InitUtilsOff ==
    /\ installed = Packages
    /\ utilsPc = "unloaded"
    /\ call = NoCall

InitParseOff ==
    /\ parseIn = [kind |-> "none", reply |-> <<>>, output_dir |-> <<>>]
    /\ parseOut = NotParsed

\* the command-line program, the module run as a script, or the web app is
\* started
Init ==
    /\ apiKey \in {NONE, <<>>, <<"gsk">>}
    /\ fs \in InitialFS
    /\ InitRun
    /\ \/ InitMain("cli", CliArgv)
       \/ InitMain("script", ScriptArgv)
       \/ InitMain("web", NoArgv)
    /\ InitWebApp
    /\ InitUtilsOff
    /\ InitParseOff

RunSteps ==
    \/ CreateAgent
    \/ CreateStructure
    \/ GenerateRequirements
    \/ GenerateArchitecture
    \/ GenerateCodeFiles
    \/ GenerateTests
    \/ GenerateDocumentation
    \/ Except

Next ==
    \/ RunSteps
    \/ Interrupt
    \/ CliStart
    \/ CliGather
    \/ CliRun
    \/ CliReport
    \/ CliExit
    \/ ScriptStart
    \/ ScriptExit
    \/ WebLoad

Spec == Init /\ [][Next]_vars

(***************************************************************************)
(* The specification of create_project_in_thread and its monitor.  Line 15 *)
(* of web/app.py imports a name the module does not define (see WebLoad    *)
(* under Spec); here the script is taken past that import, with the name   *)
(* bound to the generation entry point the module does define, to see what *)
(* the thread and the monitor do with it.                                  *)
(***************************************************************************)

InitWeb ==
    /\ apiKey \in {NONE, <<>>, <<"gsk">>}
    /\ fs \in InitialFS
    /\ InitRun
    /\ InitMain("web", NoArgv)
    /\ webPc = "form"
    /\ session = InitialSession
    /\ threadPc = "idle"
    /\ monitorPc = "idle"
    /\ InitUtilsOff
    /\ InitParseOff

NextWeb ==
    \/ RunSteps
    \/ WebGenerate
    \/ ThreadStart
    \/ ThreadFinish
    \/ MonitorPoll
    \/ MonitorWake

SpecWeb == InitWeb /\ [][NextWeb]_vars

(***************************************************************************)
(* The specification of the utils package in an environment where any of   *)
(* the packages may be missing                                             *)
(***************************************************************************)

InitUtils ==
    /\ apiKey = NONE
    /\ fs = EmptyFS
    /\ InitRun
    /\ InitMain("utils", NoArgv)
    /\ InitWebApp
    /\ installed \in SUBSET Packages
    /\ utilsPc = "unloaded"
    /\ call = NoCall
    /\ InitParseOff

NextUtils ==
    \/ ImportUtils
    \/ FormatPythonCode
    \/ RunPylint
    \/ OptimizeImports
    \/ CheckPep8Compliance

SpecUtils == InitUtils /\ [][NextUtils]_vars

(***************************************************************************)
(* The specification of one file phase applied to one reply, in the output *)
(* directory as create_project_structure leaves it                         *)
(***************************************************************************)

ParseOutputDir == <<"gen">>

InitParse ==
    /\ apiKey = <<"gsk">>
    /\ fs = create_project_structure(ParseOutputDir, EmptyFS).fs
    /\ InitRun
    /\ InitMain("parse", NoArgv)
    /\ InitWebApp
    /\ InitUtilsOff
    /\ parseIn \in [kind : FilePhases,
                    reply : RepliesOf(DOMAIN SectionShapes, MaxSections),
                    output_dir : {ParseOutputDir}]
    /\ parseOut = NotParsed

SpecParse == InitParse /\ [][ParseReply]_vars

(***************************************************************************)
(* The file functions of the utils package: format_python_file and         *)
(* count_lines_of_code of code_quality, get_project_structure,             *)
(* create_project_skeleton and merge_files of file_utils.  They are called *)
(* on a project directory proj below the working directory.                *)
(***************************************************************************)

\* with open(path, "r", encoding="utf-8") as f: f.read(): the text of a
\* regular file; a missing file or a directory raises OSError, a file that
\* holds a byte that is not UTF-8, written "<xff>", raises UnicodeDecodeError
read_text_file(f, path) ==
    LET r == Resolve(path)
    IN  IF path # <<>> /\ IsFile(f, r) /\ \A k \in DOMAIN f.files[r] : f.files[r][k] # "<xff>"
        THEN [ok |-> TRUE, text |-> f.files[r]]
        ELSE [ok |-> FALSE, text |-> <<>>]

\* format_python_file: the code is read (the text of a Python file is one
\* of the codes of Codes, as a text of one token), handed to
\* format_python_code and
\* written back, True; any exception of the two open calls gives False
format_python_file(f, path) ==
    LET got == read_text_file(f, path)
        wrote == write_file(f, path, <<format_python_code(got.text[1])>>)
    IN  IF ~got.ok THEN [result |-> FALSE, fs |-> f]
        ELSE IF ~wrote.ok THEN [result |-> FALSE, fs |-> f]
        ELSE [result |-> TRUE, fs |-> wrote.fs]

\* the project directory and the paths the functions are called on
ProjectDir == <<"proj">>
MainPy == join(ProjectDir, <<"main.py">>)
NotesPy == join(ProjectDir, <<"notes.py">>)

\* a file system with one more file, in a directory that is made if needed
WithFile(f, path, text) == write_file(makedirs(f, dirname(path)).fs, path, text).fs

\* a call of format_python_file on a Python file, a missing file or a
\* directory
FormatPythonFile ==
    /\ entry = "files" /\ call.fn = "none"
    /\ \E path \in {MainPy, join(ProjectDir, <<"missing.py">>), ProjectDir} :
         LET r == format_python_file(fs, path)
         IN  /\ fs' = r.fs
             /\ call' = [fn |-> "format_python_file", arg |-> path,
                         result |-> r.result, before |-> fs]
    /\ UNCHANGED <<apiKey, runVars, mainVars, webVars, installed, utilsPc, parseVars>>

\* f.readlines(): the lines of a text, each with its line end, the last one
\* with or without
RECURSIVE readlines(_)
readlines(text) ==
    LET i == find(text, <<NL>>)
    IN  IF text = <<>> THEN <<>>
        ELSE IF i = -1 THEN <<text>>
        ELSE <<Slice(text, 0, i + 1)>> \o readlines(Slice(text, i + 1, Len(text)))

\* the dictionary of the except branch of count_lines_of_code.  A ratio
\* a / b is kept as its two numbers <<a, b>>: 0 is <<0, 1>>, and a ratio
\* with b = 0 is a division that raises ZeroDivisionError
ZeroCounts ==
    [total_lines |-> 0, code_lines |-> 0, comment_lines |-> 0, blank_lines |-> 0,
     comment_ratio |-> <<0, 1>>]

\* comment_lines / code_lines if code_lines > 0 else 0, the test left out:
\* ZeroDivisionError is an Exception and ends in the except branch
comment_ratio_unguarded(comment_lines, code_lines) == <<comment_lines, code_lines>>

\* comment_lines / code_lines if code_lines > 0 else 0
comment_ratio(comment_lines, code_lines) ==
    IF code_lines > 0 THEN <<comment_lines, code_lines>> ELSE <<0, 1>>

\* count_lines_of_code: the counts, or the zeros of the except branch when
\* the file cannot be read or the division raises
count_lines_of_code(f, path) ==
    LET got == read_text_file(f, path)
        lines == readlines(got.text)
        total_lines == Len(lines)
        blank_lines == Cardinality({k \in DOMAIN lines : strip(lines[k]) = <<>>})
        comment_lines == Cardinality({k \in DOMAIN lines :
                                         strip(lines[k]) # <<>> /\ strip(lines[k])[1] = "#"})
        code_lines == total_lines - blank_lines - comment_lines
        ratio == comment_ratio(comment_lines, code_lines)
    IN  IF ~got.ok \/ ratio[2] = 0 THEN ZeroCounts
        ELSE [total_lines |-> total_lines, code_lines |-> code_lines,
              comment_lines |-> comment_lines, blank_lines |-> blank_lines,
              comment_ratio |-> ratio]

\* the lines the files are made of: blank, blanks only, a comment, an
\* indented comment, code, code with a comment behind it
LineShapes ==
    {<<NL>>, <<" ", NL>>, <<"#", "note", NL>>, <<" ", "#", "note", NL>>,
     <<"x", NL>>, <<"x", " ", "#", "note", NL>>}

\* the most lines a file holds
MaxLines == 3

RECURSIVE TextsOf(_, _)
TextsOf(shapes, n) ==
    IF n = 0 THEN {<<>>}
    ELSE LET shorter == TextsOf(shapes, n - 1)
         IN  shorter \cup {t \o l : t \in shorter, l \in shapes}

\* the texts of at most MaxLines lines, the same with the last line end
\* missing, and a file that is not UTF-8
LineTexts ==
    LET whole == TextsOf(LineShapes, MaxLines)
    IN  whole \cup {SubSeq(t, 1, Len(t) - 1) : t \in whole \ {<<>>}} \cup {<<"x", "<xff>", NL>>}

\* a call of count_lines_of_code on a file, a missing file or a directory
CountLinesOfCode ==
    /\ entry = "files" /\ call.fn = "none"
    /\ \E path \in {NotesPy, join(ProjectDir, <<"missing.py">>), ProjectDir} :
         call' = [fn |-> "count_lines_of_code", arg |-> path,
                  result |-> count_lines_of_code(fs, path), before |-> fs]
    /\ UNCHANGED <<apiKey, fs, runVars, mainVars, webVars, installed, utilsPc, parseVars>>

\* Path(p).name: the last component of a path, "." and empty components
\* left out; empty for ".", "/" and the empty path, ".." for a path that ends
\* in ".."
path_name(p) ==
    LET parts == SelectSeq(split(p, SEP), LAMBDA c : c # <<>> /\ c # <<".">>)
    IN  IF parts = <<>> THEN <<>> ELSE parts[Len(parts)]

\* a file system of the project: denied holds the directories that
\* iterdir() cannot list (PermissionError)
ProjectFS == [dirs |-> EmptyFS.dirs, files |-> EmptyFS.files, denied |-> {}]

\* the names iterdir() yields for a directory
iterdir(f, q) ==
    {x[Len(x)] : x \in {y \in f.dirs \cup DOMAIN f.files :
                           Len(y) = Len(q) + 1 /\ SubSeq(y, 1, Len(q)) = q}}

\* max_depth=None
NoMaxDepth == -1

\* _get_structure(current_path, current_depth), the nested dictionaries
\* written as the set of pairs (path from the root, kind of the value)
RECURSIVE get_structure(_, _, _, _)
get_structure(f, root, rel, max_depth) ==
    IF max_depth # NoMaxDepth /\ Len(rel) > max_depth THEN {<<rel, "...">>}
    ELSE IF (root \o rel) \in f.denied THEN {<<rel, "Permission denied">>}
    ELSE {<<rel, "dict">>}
         \cup UNION {IF IsDir(f, root \o rel \o <<name>>)
                     THEN get_structure(f, root, rel \o <<name>>, max_depth)
                     ELSE {<<rel \o <<name>>, "None">>} :
                     name \in iterdir(f, root \o rel)}

\* get_project_structure: {path.name: _get_structure(path)}; iterdir() of a
\* path that is no directory raises OSError, which is not caught
get_project_structure(f, directory_path, max_depth) ==
    LET root == Resolve(directory_path)
    IN  IF ~IsDir(f, root) /\ ~(max_depth # NoMaxDepth /\ 0 > max_depth)
        THEN [ok |-> FALSE, name |-> <<>>, tree |-> {}]
        ELSE [ok |-> TRUE, name |-> path_name(directory_path),
              tree |-> get_structure(f, root, <<>>, max_depth)]

\* mkdir raises FileExistsError where a regular file is in the way.  root
\* is project_path / root_name: a root name that is empty leaves
\* project_path, and ".." is resolved by the operating system to its parent
skeleton_conflict(f, project_dir, structure) ==
    LET root == PushComponent(Resolve(project_dir), structure.name)
    IN  \/ \E q \in Prefixes(root) : IsFile(f, q)
        \/ \E e \in structure.tree : e[2] # "None" /\ IsFile(f, root \o e[1])

\* "if contents is None" written "if not contents": an empty dictionary
\* counts as a file
is_file_entry_falsy(tree, e) ==
    \/ e[2] = "None"
    \/ e[2] = "dict" /\ ~\E x \in tree : Len(x[1]) = Len(e[1]) + 1 /\ SubSeq(x[1], 1, Len(e[1])) = e[1]

\* if contents is None
is_file_entry(tree, e) == e[2] = "None"

\* _create_structure: the entries of the dictionaries from the root down, a
\* file touched and anything else made a directory.  path.touch() makes an
\* empty file where there is none; a file that is there keeps its content
RECURSIVE create_structure(_, _, _, _)
create_structure(f, root, tree, todo) ==
    IF todo = {} THEN f
    ELSE LET e == CHOOSE x \in todo : \A y \in todo : Len(x[1]) <= Len(y[1])
             q == root \o e[1]
             made == IF is_file_entry(tree, e)
                     THEN IF IsFile(f, q) \/ IsDir(f, q) THEN f
                          ELSE [f EXCEPT !.files = (q :> <<>>) @@ @]
                     ELSE [f EXCEPT !.dirs = @ \cup Prefixes(q)]
         IN  create_structure(made, root, tree, todo \ {e})

\* create_project_skeleton: the root directory is made, then its contents if
\* they are a dictionary
create_project_skeleton(f, project_dir, structure) ==
    LET root == PushComponent(Resolve(project_dir), structure.name)
        contents == {e \in structure.tree : e[1] # <<>>}
    IN  create_structure([f EXCEPT !.dirs = @ \cup Prefixes(root)], root, structure.tree, contents)

\* the directory the skeletons are created in
CopyDir == <<"copy">>

\* a call of get_project_structure on the project, the working directory
\* under two of its names, its parent, or a path that is no directory
GetProjectStructure ==
    /\ entry = "files" /\ call.fn = "none"
    /\ \E path \in {ProjectDir, <<".">>, <<"proj", "/", "..">>, <<"..">>, MainPy}, max_depth \in {NoMaxDepth, 0, 1} :
         call' = [fn |-> "get_project_structure",
                  arg |-> [directory_path |-> path, max_depth |-> max_depth],
                  result |-> get_project_structure(fs, path, max_depth), before |-> fs]
    /\ UNCHANGED <<apiKey, fs, runVars, mainVars, webVars, installed, utilsPc, parseVars>>

\* a call of create_project_skeleton on the dictionary that the call of
\* get_project_structure before it has returned, where no regular file is in
\* the way of a directory
CreateProjectSkeleton ==
    /\ entry = "files" /\ call.fn = "get_project_structure" /\ call.result.ok
    /\ ~skeleton_conflict(fs, CopyDir, call.result)
    /\ fs' = create_project_skeleton(fs, CopyDir, call.result)
    /\ call' = [fn |-> "create_project_skeleton",
                arg |-> [project_dir |-> CopyDir, structure |-> call.result,
                         source |-> call.arg],
                result |-> CopyDir, before |-> fs]
    /\ UNCHANGED <<apiKey, runVars, mainVars, webVars, installed, utilsPc, parseVars>>

\* str(e) for the exception that reading a path raises
read_error(f, path) ==
    LET r == Resolve(path)
    IN  IF IsDir(f, r) THEN "[Errno 21] Is a directory"
        ELSE IF ~IsFile(f, r) \/ path = <<>> THEN "[Errno 2] No such file or directory"
        ELSE "'utf-8' codec can't decode byte"

\* str(Path(p)): the components of p joined by "/", "." and empty
\* components left out
RECURSIVE join_parts(_)
join_parts(parts) ==
    IF parts = <<>> THEN <<>>
    ELSE IF Len(parts) = 1 THEN parts[1]
    ELSE parts[1] \o SEP \o join_parts(Tail(parts))

path_str(p) ==
    LET parts == SelectSeq(split(p, SEP), LAMBDA c : c # <<>> /\ c # <<".">>)
    IN  IF p # <<>> /\ p[1] = "/" THEN SEP \o join_parts(parts)
        ELSE IF parts = <<>> THEN <<".">>
        ELSE join_parts(parts)

\* the loop of merge_files for one path: the text of the file, or the text
\* of the error
merge_piece(f, path) ==
    LET got == read_text_file(f, path)
    IN  IF got.ok THEN got.text
        ELSE <<"Error reading ">> \o path_str(path) \o <<": ", read_error(f, path)>>

\* the loop with the except branch left out: a file that cannot be read is
\* passed over
RECURSIVE merge_contents_skipping(_, _)
merge_contents_skipping(f, file_paths) ==
    IF file_paths = <<>> THEN <<>>
    ELSE (IF read_text_file(f, file_paths[1]).ok THEN <<merge_piece(f, file_paths[1])>> ELSE <<>>)
         \o merge_contents_skipping(f, Tail(file_paths))

\* contents: one piece for each path of file_paths, in that order
merge_contents(f, file_paths) ==
    [k \in 1..Len(file_paths) |-> merge_piece(f, file_paths[k])]

\* separator.join(contents)
RECURSIVE str_join(_, _)
str_join(separator, contents) ==
    IF contents = <<>> THEN <<>>
    ELSE IF Len(contents) = 1 THEN contents[1]
    ELSE contents[1] \o separator \o str_join(separator, Tail(contents))

\* write_text_file(path, content): ensure_directory_exists(path.parent),
\* then open(path, "w") and f.write(content); a regular file in the way of
\* the parent, or a directory at path, raises OSError
write_text_file(f, path, content) ==
    LET r == Resolve(path)
        parent == SubSeq(r, 1, Len(r) - 1)
    IN  IF \E q \in Prefixes(parent) : IsFile(f, q)
        THEN [ok |-> FALSE, fs |-> f]
        ELSE write_file([f EXCEPT !.dirs = @ \cup Prefixes(parent)], path, content)

\* merge_files
merge_files(f, file_paths, output_path, separator) ==
    write_text_file(f, output_path, str_join(separator, merge_contents(f, file_paths)))

\* the most files a call of merge_files is given
MaxFiles == 2

RECURSIVE PathLists(_, _)
PathLists(paths, n) ==
    IF n = 0 THEN {<<>>}
    ELSE LET shorter == PathLists(paths, n - 1)
         IN  shorter \cup {Append(l, p) : l \in shorter, p \in paths}

\* a call of merge_files on files, a missing file and a directory; the
\* output path is a file in a directory that is not there yet, one of the
\* files merged, or a directory
MergeFiles ==
    /\ entry = "merge" /\ call.fn = "none"
    /\ \E file_paths \in PathLists({NotesPy, MainPy, join(ProjectDir, <<"missing.py">>), ProjectDir}, MaxFiles),
          output_path \in {<<"out", "/", "merged.txt">>, NotesPy, ProjectDir}, separator \in {<<NL, NL>>, <<"---", NL>>} :
         LET r == merge_files(fs, file_paths, output_path, separator)
         IN  /\ fs' = r.fs
             /\ call' = [fn |-> "merge_files",
                         arg |-> [file_paths |-> file_paths, output_path |-> output_path,
                                  separator |-> separator],
                         result |-> r.ok, before |-> fs]
    /\ UNCHANGED <<apiKey, runVars, mainVars, webVars, installed, utilsPc, parseVars>>

\* the project: main.py with each text of a Python file, or notes.py with
\* each text of lines, or a package directory of each shape
ProjectBase == WithFile(WithFile(ProjectFS, MainPy, <<"tidy">>), NotesPy, <<"x", NL>>)

ProjectTrees ==
    LET PackageDir == join(ProjectDir, <<"pkg">>)
    IN  {WithFile(ProjectBase, MainPy, t) : t \in {<<c>> : c \in Codes}}
        \cup {WithFile(ProjectBase, NotesPy, t) : t \in LineTexts}
        \cup {makedirs(ProjectBase, PackageDir).fs,
              WithFile(ProjectBase, join(PackageDir, <<"util.py">>), <<"tidy">>),
              WithFile(makedirs(ProjectBase, join(PackageDir, <<"data">>)).fs,
                       join(PackageDir, <<"util.py">>), <<"tidy">>),
              [WithFile(ProjectBase, join(PackageDir, <<"util.py">>), <<"tidy">>)
                  EXCEPT !.denied = {Resolve(PackageDir)}],
              makedirs(ProjectBase, CopyDir).fs,
              WithFile(ProjectBase, join(CopyDir, MainPy), <<"old">>)}

InitFiles ==
    /\ apiKey = NONE
    /\ fs \in ProjectTrees
    /\ InitRun
    /\ InitMain("files", NoArgv)
    /\ InitWebApp
    /\ InitUtilsOff
    /\ InitParseOff

NextFiles ==
    \/ FormatPythonFile
    \/ CountLinesOfCode
    \/ GetProjectStructure
    \/ CreateProjectSkeleton

SpecFiles == InitFiles /\ [][NextFiles]_vars

\* the texts of the files that are merged: empty, lines, a text that holds
\* the separator, a text without a line end, and a file that is not UTF-8
MergeTrees ==
    LET MergeTexts == {<<>>, <<"x", NL>>, <<"x", NL, NL, "y", NL>>, <<"---", NL>>, <<"y">>,
                       <<"x", "<xff>", NL>>}
    IN  {WithFile(WithFile(ProjectBase, MainPy, t), NotesPy, u) :
            t \in {<<c>> : c \in Codes}, u \in MergeTexts}
        \cup {WithFile(ProjectBase, <<"out">>, <<"old">>)}

InitMerge ==
    /\ apiKey = NONE
    /\ fs \in MergeTrees
    /\ InitRun
    /\ InitMain("merge", NoArgv)
    /\ InitWebApp
    /\ InitUtilsOff
    /\ InitParseOff

SpecMerge == InitMerge /\ [][MergeFiles]_vars

(***************************************************************************)
(* Properties of a run (Spec)                                              *)
(***************************************************************************)

IsPrefixOf(a, b) == Len(a) <= Len(b) /\ a = SubSeq(b, 1, Len(a))

\* the five steps in the order the description gives
FiveSteps == <<"requirements", "architecture", "code", "tests", "docs">>

\* the results a phase leaves for the ones after it
PhaseResult(k) ==
    CASE k = 1 -> locals.requirements # NONE
      [] k = 2 -> locals.architecture # NONE
      [] k = 3 -> locals.created_files # NoList
      [] k = 4 -> locals.created_tests # NoList
      [] k = 5 -> locals.created_docs # NoList

\* C1: the phases run in the order requirements, architecture, code, tests,
\* docs.  The model is invoked once per phase, so the invocations made so far
\* are always an initial part of that list; the call is at phase k only when
\* exactly the k-1 phases before it have invoked the model and returned
\* their results without an exception; and a call that returns True has
\* made exactly the five invocations.
C1_FixedPhaseOrder ==
    /\ IsPrefixOf(invocations, FiveSteps)
    /\ \A k \in 1..Len(FiveSteps) :
         pc = FiveSteps[k] =>
            /\ Len(invocations) = k - 1
            /\ exc = NoExc
            /\ \A j \in 1..Len(FiveSteps) : PhaseResult(j) <=> j < k
    /\ (pc = "returned" /\ result) => invocations = FiveSteps

\* a run that went through the five phases and returned True
C1_Witness ==
    pc = "returned" /\ result /\ Len(invocations) = 5 /\ \A j \in 1..5 : PhaseResult(j)

\* the directories create_project_structure is to make
StructureMade ==
    \A d \in {<<>>, <<"src">>, <<"tests">>, <<"docs">>} :
        IsDir(fs, Resolve(join(runArgs.output_dir, d)))

\* C4: run_simplified_coding_system lets no Exception out: whatever leaves
\* the call is not an Exception (it is KeyboardInterrupt).  It returns True
\* exactly when nothing was raised, and then the agent was created (the key
\* is set), the project structure exists and the five phases have run; once
\* an exception is raised no later statement of the try block is reached,
\* and the call returns False.
C4_ReturnsFalseOnException ==
    /\ pc = "propagated" => exc \notin ExceptionClasses
    /\ exc # NoExc => pc \notin Running
    /\ pc = "returned" => (result <=> exc = NoExc)
    /\ (pc = "returned" /\ exc \in ExceptionClasses) => ~result
    /\ (pc = "returned" /\ result) =>
            /\ create_coding_agent(apiKey) = "ok"
            /\ StructureMade
            /\ Len(invocations) = Len(FiveSteps)
            /\ \A j \in 1..Len(FiveSteps) : PhaseResult(j)

\* the model failed in the tests phase and the call returned False, the
\* documentation phase never started
C4_Witness ==
    /\ pc = "returned" /\ ~result /\ exc = "APIError"
    /\ invocations = <<"requirements", "architecture", "code", "tests">>

\* C5: with GROQ_API_KEY unset or empty the call never gets past the
\* creation of the agent: the model is never invoked, nothing is written
\* and the file system stays as it was when the call was made (no
\* output directory, no src, tests or docs); the exception raised is
\* ValueError unless the user interrupts, and the value returned is False.
C5_NoKeyNoEffect ==
    (apiKey = NONE \/ apiKey = <<>>) =>
        /\ pc \in {"idle", "create_agent", "except", "returned", "propagated"}
        /\ invocations = <<>>
        /\ writes = <<>>
        /\ fs = fsAtCall
        /\ pc = "returned" => (~result /\ exc = "ValueError")
        /\ exc \in {NoExc, "ValueError", "KeyboardInterrupt"}

\* the script was run with an empty key and an output directory that does
\* not exist: the call returned False and the directory still does not exist
C5_Witness ==
    /\ entry = "script" /\ apiKey = <<>>
    /\ pc = "returned" /\ ~result /\ exc = "ValueError"
    /\ ~IsDir(fs, Resolve(runArgs.output_dir))
    /\ ~IsFile(fs, Resolve(runArgs.output_dir))

\* C8: the exit status of the command-line program.  When main returns, it
\* returns 0 if the call returned True and 1 if it returned False, and that
\* is the exit status; an Exception that leaves main gives status 1 and a
\* KeyboardInterrupt gives status 0.
C8_CliExitCode ==
    entry = "cli" =>
        /\ mainReturn # -1 =>
              /\ pc = "returned"
              /\ mainReturn = (IF result THEN 0 ELSE 1)
              /\ mainExc = NoExc
        /\ mainPc = "exit" =>
              /\ mainReturn # -1 => exitCode = mainReturn
              /\ mainExc \in ExceptionClasses => exitCode = 1
              /\ mainExc = "KeyboardInterrupt" => exitCode = 0
              /\ exitCode \in {0, 1}
        /\ mainPc # "exit" => exitCode = -1

\* the user interrupted the generation and the program ended with status 0
C8_Witness ==
    /\ entry = "cli" /\ mainPc = "exit"
    /\ mainExc = "KeyboardInterrupt" /\ exitCode = 0
    /\ Len(invocations) >= 2

\* -i was given, or the prompt argument is absent or empty
C9_WantsQuestionnaire == argv.i \/ argv.prompt = NONE \/ argv.prompt = <<>>

\* C9: the command-line program goes through the questionnaire exactly when
\* -i is given or there is no non-empty prompt argument.  Otherwise the
\* prompt it hands to run_simplified_coding_system is the argument as given;
\* the output directory it hands over is the value of --output-dir, or the
\* generated_project directory of the working directory by default.
C9_PromptSource ==
    entry = "cli" =>
        /\ mainPc = "gather" => C9_WantsQuestionnaire
        /\ mainPc \in {"makedirs", "run"} =>
              prompt = (IF C9_WantsQuestionnaire THEN QuestionnairePrompt ELSE argv.prompt)
        /\ (mainPc = "left" /\ mainExc \in GatherOutcomes /\ pc = "idle") =>
              C9_WantsQuestionnaire
        /\ pc # "idle" =>
              /\ runArgs.prompt = (IF C9_WantsQuestionnaire THEN QuestionnairePrompt
                                   ELSE argv.prompt)
              /\ argv.o # NONE => runArgs.output_dir = argv.o
              /\ argv.o = NONE =>
                    Resolve(runArgs.output_dir) = Resolve(<<".", "/", "generated_project">>)

\* the prompt was given without -i and -o: it reached the call unchanged,
\* with the default output directory
C9_Witness ==
    /\ entry = "cli" /\ pc # "idle"
    /\ ~argv.i /\ argv.o = NONE
    /\ argv.prompt = ArgPrompt /\ runArgs.prompt = ArgPrompt

(***************************************************************************)
(* Properties of a file phase (SpecParse).  What the phase is to do with a *)
(* reply is written here from the reply itself, by position, not with the  *)
(* operators of the parser.                                                *)
(***************************************************************************)

\* the k-th smallest element of a set of numbers
Nth(S, k) == CHOOSE x \in S : Cardinality({y \in S : y < x}) = k - 1

\* the positions of the markers of a text
MarkerPositions(text) == {i \in 1..Len(text) : text[i] = "FILE: "}

\* the section that follows the marker at position i: up to the next marker
SectionAfter(text, marks, i) ==
    LET later == {j \in marks : j > i}
        stop == IF later = {} THEN Len(text) + 1 ELSE Nth(later, 1)
    IN  SubSeq(text, i + 1, stop - 1)

\* the sections of a text in order of appearance; the text before the first
\* marker is none of them
SectionsInOrder(text) ==
    LET marks == MarkerPositions(text)
    IN  [k \in 1..Cardinality(marks) |-> SectionAfter(text, marks, Nth(marks, k))]

\* the positions of a section where a fence (three backticks) starts
FenceStarts(sec) ==
    {i \in 1..(Len(sec) - 2) : \A d \in 0..2 : sec[i + d] = BACKTICK}

\* a fenced block: two distinct occurrences of the fence
ContainsFencedBlock(sec) == Cardinality(FenceStarts(sec)) >= 2

\* the sections of the sanitized reply, and those with a fenced block
ReplySections == SectionsInOrder(sanitize_text(parseIn.reply))
FencedSections == SelectSeq(ReplySections, ContainsFencedBlock)

\* the stripped first line of a section that has a non-blank character
FirstLine(sec) ==
    LET solid == {i \in 1..Len(sec) : sec[i] \notin Whitespace}
        a == Nth(solid, 1)
        breaks == {i \in a..Len(sec) : sec[i] = NL}
        e == IF breaks = {} THEN Len(sec) ELSE Nth(breaks, 1) - 1
        b == CHOOSE i \in solid : i <= e /\ \A j \in solid : j <= e => j <= i
    IN  SubSeq(sec, a, b)

PathsOf(secs) == [k \in 1..Len(secs) |-> FirstLine(secs[k])]

FullPathsOf(secs) == [k \in 1..Len(secs) |-> join(parseIn.output_dir, FirstLine(secs[k]))]

WrittenPaths == [k \in 1..Len(parseOut.writes) |-> parseOut.writes[k].path]

\* C2 as stated: the phase writes one file per section that contains a
\* fenced block, at os.path.join(output_dir, p) with p the stripped first
\* line, and returns the list of those p in order of appearance.
C2_OneFilePerFencedSection ==
    parseOut.done =>
        LET fenced == FencedSections
            expected == FullPathsOf(fenced)
        IN  /\ parseOut.ok
            /\ WrittenPaths = expected
            /\ parseOut.created = PathsOf(fenced)
            /\ \A k \in 1..Len(fenced) : IsFile(fs, Resolve(expected[k]))

\* C2 as amended: the sections that contain a fenced block are written in
\* order of appearance, one file each at os.path.join(output_dir, p), until
\* a write fails; a failed write raises and ends the phase with the files of
\* the sections before it written.  When the phase returns, every such
\* section has been written and the list returned is exactly those p, in
\* order of appearance.  Nothing is written for the text before the first
\* marker or for a section without a fenced block.
C2_OneFilePerFencedSectionUntilFailure ==
    parseOut.done =>
        LET fenced == FencedSections
            expected == FullPathsOf(fenced)
            written == WrittenPaths
        IN  /\ IsPrefixOf(written, expected)
            /\ \A k \in 1..Len(written) : IsFile(fs, Resolve(written[k]))
            /\ parseOut.ok =>
                  /\ written = expected
                  /\ parseOut.created = PathsOf(fenced)
            /\ ~parseOut.ok =>
                  /\ Len(written) < Len(fenced)
                  /\ LET r == Resolve(expected[Len(written) + 1])
                     IN  IsDir(fs, r) \/ \E q \in Prefixes(r) : IsFile(fs, q) /\ q # r

\* a reply with a preamble and two sections, one of them without a closed
\* fence: one file written, one path returned
C2_Witness ==
    /\ parseOut.done /\ parseOut.ok
    /\ parseIn.reply # <<>> /\ parseIn.reply[1] # "FILE: "
    /\ Len(ReplySections) = 2
    /\ Len(FencedSections) = 1
    /\ Len(parseOut.created) = 1
    /\ Len(parseOut.writes) = 1

\* the language tags a fence may carry
LanguageTags == {"python", "markdown", "js", "bash"}

\* the text between the first and the last fence of a section, the fences
\* and the language tag of the opening fence taken out
TextBetweenFences(sec) ==
    LET first == Nth(FenceStarts(sec), 1)
        last == Nth(FenceStarts(sec), Cardinality(FenceStarts(sec)))
        inner == SubSeq(sec, first + 3, last - 1)
        untagged == IF inner # <<>> /\ inner[1] \in LanguageTags THEN Tail(inner) ELSE inner
    IN  strip(replace(untagged, FENCE, <<>>))

\* C3: the content written for a section is the text between its first and
\* last fence with the fences removed, whatever language tag follows the
\* opening fence: no fence, no tag of the opening fence, nothing from
\* outside the fences.
C3_ContentIsTextBetweenFences ==
    parseOut.done =>
        LET fenced == FencedSections
        IN  \A k \in 1..Len(parseOut.writes) :
                /\ FenceStarts(parseOut.writes[k].content) = {}
                /\ parseOut.writes[k].content = TextBetweenFences(fenced[k])

(***************************************************************************)
(* Properties of the web app (Spec, SpecWeb)                               *)
(***************************************************************************)

\* C6: the script of the web app serves the form with the Generate Project
\* button (pressing it starts the thread that runs the generation entry
\* point of ai_coding_system), and when the thread has finished the session
\* holds the output directory, the generated files and download_ready.
C6_GenerateRunsEntryPoint ==
    /\ (entry = "web" /\ webPc # "unloaded") => webPc \in {"form", "OSError"}
    /\ threadPc \in {"run", "done"} =>
          /\ pc # "idle"
          /\ runArgs = [prompt |-> WebPrompt, output_dir |-> WebOutputDir]
    /\ threadPc = "done" =>
          /\ session.output_dir = WebOutputDir
          /\ session.files = walk_files(fs, WebOutputDir)
          /\ session.download_ready

Tools == {"black", "pylint", "isort", "pycodestyle"}

\* C10: whichever of Black, Pylint, isort and pycodestyle are missing, the
\* utils package can be imported, and a wrapper whose tool is missing
\* returns its failure value: ("Pylint not available", 0.0) for run_pylint,
\* (False, message) for optimize_imports and check_pep8_compliance, the
\* code as given for format_python_code.
C10_WrappersAreOptional ==
    /\ (utilsPc # "unloaded" /\ Packages \ Tools \subseteq installed) => utilsPc = "imported"
    /\ (call.fn = "format_python_code" /\ "black" \notin installed) =>
          call.result[1] = call.arg
    /\ (call.fn = "run_pylint" /\ "pylint" \notin installed) =>
          call.result = <<"Pylint not available", "0.0">>
    /\ (call.fn = "optimize_imports" /\ "isort" \notin installed) =>
          call.result[1] = "False"
    /\ (call.fn = "check_pep8_compliance" /\ "pycodestyle" \notin installed) =>
          call.result[1] = "False"

(***************************************************************************)
(* Properties of the file functions of the utils package (SpecFiles)       *)
(***************************************************************************)

\* what a path named before a call: a readable text or not
ReadableBefore(path) ==
    /\ Resolve(path) \in DOMAIN call.before.files
    /\ \A k \in DOMAIN call.before.files[Resolve(path)] :
          call.before.files[Resolve(path)][k] # "<xff>"

TextBefore(path) == call.before.files[Resolve(path)]

\* C11: format_python_file returns True only when Black formatted the code
\* of the file (the file then holds the formatted code), and when it
\* returns False the content of the file, and everything else on disk, is
\* as it was.
C11_TrueOnlyWhenFormatted ==
    call.fn = "format_python_file" =>
        /\ call.result =>
              /\ ReadableBefore(call.arg)
              /\ black_format_str(TextBefore(call.arg)[1]) # "raise"
              /\ fs.files[Resolve(call.arg)] = <<black_format_str(TextBefore(call.arg)[1])>>
        /\ ~call.result => fs = call.before

\* the lines of a text by position: a line starts at the first token and
\* after every line end, and goes up to its line end or the end of the text
LineStarts(text) ==
    {a \in 1..Len(text) : a = 1 \/ text[a - 1] = NL}

LineEnd(text, a) ==
    LET ends == {e \in a..Len(text) : text[e] = NL}
    IN  IF ends = {} THEN Len(text) ELSE Nth(ends, 1)

BlankStarts(text) ==
    {a \in LineStarts(text) : \A k \in a..LineEnd(text, a) : text[k] \in {" ", NL}}

CommentStarts(text) ==
    {a \in LineStarts(text) :
        \E k \in a..LineEnd(text, a) :
            text[k] = "#" /\ \A j \in a..(k - 1) : text[j] \in {" ", NL}}

\* C12: for a readable file count_lines_of_code returns the counts of its
\* lines, none negative, with total_lines = code_lines + comment_lines +
\* blank_lines, and comment_ratio = comment_lines / code_lines when
\* code_lines > 0 and 0 when code_lines = 0; for a file that cannot be read
\* the five values are 0 (and nothing is raised).
C12_CountsAddUp ==
    call.fn = "count_lines_of_code" =>
        LET c == call.result
        IN  IF ReadableBefore(call.arg)
            THEN LET text == TextBefore(call.arg)
                 IN  /\ c.total_lines = Cardinality(LineStarts(text))
                     /\ c.blank_lines = Cardinality(BlankStarts(text))
                     /\ c.comment_lines = Cardinality(CommentStarts(text))
                     /\ c.code_lines >= 0 /\ c.comment_lines >= 0 /\ c.blank_lines >= 0
                     /\ c.total_lines = c.code_lines + c.comment_lines + c.blank_lines
                     /\ c.code_lines > 0 => c.comment_ratio = <<c.comment_lines, c.code_lines>>
                     /\ c.code_lines = 0 => c.comment_ratio = <<0, 1>>
            ELSE /\ c.total_lines = 0 /\ c.code_lines = 0 /\ c.comment_lines = 0
                 /\ c.blank_lines = 0 /\ c.comment_ratio = <<0, 1>>

\* a file of a blank line, a comment line and a code line has been counted
C12_Witness ==
    /\ call.fn = "count_lines_of_code"
    /\ ReadableBefore(call.arg)
    /\ call.result.blank_lines = 1
    /\ call.result.comment_lines = 1
    /\ call.result.code_lines = 1
    /\ call.result.comment_ratio = <<1, 1>>

\* the directories and the files below a directory q, by their paths from q
DirsBelow(f, q) ==
    {SubSeq(x, Len(q) + 1, Len(x)) :
        x \in {y \in f.dirs : Len(y) > Len(q) /\ SubSeq(y, 1, Len(q)) = q}}

FilesBelow(f, q) ==
    {SubSeq(x, Len(q) + 1, Len(x)) :
        x \in {y \in DOMAIN f.files : Len(y) > Len(q) /\ SubSeq(y, 1, Len(q)) = q}}

\* the tree T that was read, and the root that create_project_skeleton has
\* made of it under d: d / name
SourceRoot == Resolve(call.arg.source.directory_path)
CreatedRootPath == join(call.arg.project_dir, call.arg.structure.name)

\* the skeleton has the directory and file names of T, its files are empty,
\* and get_project_structure reads from it what it read from T
SkeletonMirrorsSource ==
    LET created == Resolve(CreatedRootPath)
        again == get_project_structure(fs, CreatedRootPath, NoMaxDepth)
    IN  /\ IsPrefixOf(Resolve(call.arg.project_dir), created)
        /\ created # Resolve(call.arg.project_dir)
        /\ DirsBelow(fs, created) = DirsBelow(call.before, SourceRoot)
        /\ FilesBelow(fs, created) = FilesBelow(call.before, SourceRoot)
        /\ \A x \in FilesBelow(fs, created) : fs.files[created \o x] = <<>>
        /\ again.ok
        /\ again.name = call.arg.structure.name
        /\ again.tree = call.arg.structure.tree

\* C13 as stated: for any directory tree T read with max_depth=None,
\* create_project_skeleton(d, get_project_structure(T)) creates under d a
\* tree with the directory and file names of T, files empty, and
\* get_project_structure of the created root equals get_project_structure(T).
C13_SkeletonRoundTrip ==
    (call.fn = "create_project_skeleton" /\ call.arg.source.max_depth = NoMaxDepth)
        => SkeletonMirrorsSource

\* every directory of T can be listed, the path T is read from ends in the
\* name of the directory, and d holds no entry of that name
RoundTripConditions ==
    /\ \A q \in call.before.denied : ~IsPrefixOf(SourceRoot, q)
    /\ call.arg.structure.name \notin {<<>>, <<"..">>}
    /\ ~IsDir(call.before, Resolve(CreatedRootPath))
    /\ ~IsFile(call.before, Resolve(CreatedRootPath))

\* C13 as amended: the same for a tree T all of whose directories can be
\* listed, read from a path that ends in the name of the directory (not ".",
\* ".." or the root), and a directory d that holds no entry of that name.
C13_SkeletonRoundTripOfListedTree ==
    (/\ call.fn = "create_project_skeleton"
     /\ call.arg.source.max_depth = NoMaxDepth
     /\ RoundTripConditions)
        => SkeletonMirrorsSource

\* a project with a package that holds a file and an empty directory has
\* been rebuilt under d
C13_Witness ==
    /\ call.fn = "create_project_skeleton"
    /\ call.arg.source.max_depth = NoMaxDepth
    /\ RoundTripConditions
    /\ <<<<<<"pkg">>, <<"data">>>>, "dict">> \in call.arg.structure.tree
    /\ <<<<<<"pkg">>, <<"util.py">>>>, "None">> \in call.arg.structure.tree
    /\ IsFile(fs, Resolve(CreatedRootPath) \o <<<<"pkg">>, <<"util.py">>>>)

\* the piece the k-th path of a call of merge_files stands for: the text
\* the file had before the call, or the text of the error
ExpectedPiece(k) ==
    LET path == call.arg.file_paths[k]
    IN  IF ReadableBefore(path) THEN TextBefore(path)
        ELSE <<"Error reading ">> \o path \o <<": ">>

\* the length of the piece that was written for the k-th path: an error
\* text ends with one token for the error
PieceLen(k) ==
    IF ReadableBefore(call.arg.file_paths[k]) THEN Len(ExpectedPiece(k))
    ELSE Len(ExpectedPiece(k)) + 1

\* where the k-th piece starts in the output
RECURSIVE PieceStart(_)
PieceStart(k) ==
    IF k = 1 THEN 1
    ELSE PieceStart(k - 1) + PieceLen(k - 1) + Len(call.arg.separator)

\* the output path can be written: it is no directory, and no regular file
\* is in the way of its parent
OutputWritable ==
    LET r == Resolve(call.arg.output_path)
    IN  /\ ~IsDir(call.before, r)
        /\ \A q \in Prefixes(r) : q # r => ~IsFile(call.before, q)

C15_WritesStayInsideOutputDir ==
    parseOut.done =>
        LET root == Resolve(parseIn.output_dir)
        IN  \A k \in 1..Len(parseOut.writes) :
                LET at == Resolve(parseOut.writes[k].path)
                IN  /\ IsFile(fs, at)
                    /\ IsPrefixOf(root, at)
                    /\ at # root

(***************************************************************************)
(* What a failed run leaves on disk (Spec)                                 *)
(***************************************************************************)

\* the content of the last write of the run to the place of its k-th write
LastWritten(k) ==
    LET at == Resolve(writes[k].path)
        same == {j \in 1..Len(writes) : Resolve(writes[j].path) = at}
        last == CHOOSE j \in same : \A i \in same : i <= j
    IN  writes[last].content

\* everything the run has made so far is on disk
MadeSoFarIsOnDisk ==
    /\ StructureMade
    /\ fsAtCall.dirs \subseteq fs.dirs
    /\ DOMAIN fsAtCall.files \subseteq DOMAIN fs.files
    /\ \A k \in 1..Len(writes) :
          /\ IsFile(fs, Resolve(writes[k].path))
          /\ fs.files[Resolve(writes[k].path)] = LastWritten(k)

\* C16: there is no rollback: when a phase raises, the directories of
\* create_project_structure, what was on disk before the call and every
\* file the phases wrote (the failing phase's files included) stay on disk,
\* the except clause changes nothing there, and the call returns False
C16_NoRollback ==
    /\ [](    (pc \in {"except", "returned"} /\ exc # NoExc /\ invocations # <<>>)
           => MadeSoFarIsOnDisk)
    /\ [][(pc = "except" /\ invocations # <<>> /\ catches(exc))
            => (fs' = fs /\ (pc' # pc => pc' = "returned" /\ result' = FALSE))]_vars

\* the tests phase fails after it wrote a file, and the call has returned
C16_Witness ==
    /\ pc = "returned" /\ ~result /\ exc = "Exception"
    /\ invocations = <<"requirements", "architecture", "code", "tests">>
    /\ Len(writes) >= 4
    /\ MadeSoFarIsOnDisk
    /\ fs # fsAtCall

(***************************************************************************)
(* Sections without a fenced block (SpecParse)                             *)
(***************************************************************************)

\* the positions of the sections that hold fewer than two fence markers
Unfenced(secs) == {k \in 1..Len(secs) : ~ContainsFencedBlock(secs[k])}

\* how many of the first j sections hold a fenced block
FencedUpTo(secs, j) == Cardinality((1..j) \ Unfenced(secs))

C17_WitnessNoMarker ==
    /\ parseOut.done /\ parseOut.ok
    /\ parseIn.reply # <<>>
    /\ ReplySections = <<>>
    /\ parseOut.created = <<>>

=============================================================================
